---- MODULE Spec2Model ----
(***************************************************************************)
(* Model of weather_notif.py: one run of main(), which loads the three     *)
(* configuration groups from the environment, fetches the current weather, *)
(* builds the prompt, asks the text-generation provider for a summary and  *)
(* sends it as an SMS.                                                     *)
(*                                                                         *)
(* Python values are tagged records: None, strings, numbers, dicts, lists. *)
(* A string is a sequence of fragments (tokens); concatenation is \o, so   *)
(* an f-string is the sequence of its literal pieces and rendered values.  *)
(* A key a dict does not hold is either outside the record's domain or     *)
(* carries the tag "absent".                                               *)
(***************************************************************************)
EXTENDS Integers, Sequences, FiniteSets, TLC

VARIABLES
  env,          \* os.environ as the process sees it
  pc,           \* the stage main() is at
  weather_cfg,  \* main: weather_cfg
  openai_cfg,   \* main: openai_cfg
  twilio_cfg,   \* main: twilio_cfg
  response,     \* what the weather provider answered to requests.get
  weather_data, \* main: weather_data
  prompt,       \* main: prompt
  gen_response, \* what the text-generation provider answered
  summary,      \* main: summary
  sms_result,   \* what the SMS provider answered
  calls,        \* the external requests made so far, in order
  raised,       \* the exception main() caught, if any
  stdout,       \* texts printed to standard output, in order
  stderr,       \* texts printed to standard error, in order
  exit_code     \* main's return value

vars == <<env, pc, weather_cfg, openai_cfg, twilio_cfg, response, weather_data,
          prompt, gen_response, summary, sms_result, calls, raised, stdout,
          stderr, exit_code>>

----------------------------------------------------------------------------
(* Bounds of the model *)

\* provider text outputs have at most this many characters
MaxOutLen == 3
\* numeric weather fields range over 0..MaxNum
MaxNum == 1

----------------------------------------------------------------------------
(* Python values *)

None == [t |-> "null"]
Absent == [t |-> "absent"]
Str(tokens) == [t |-> "str", s |-> tokens]
Lit(s) == [t |-> "str", s |-> <<s>>]
Num(n) == [t |-> "num", n |-> n]
List(items) == [t |-> "list", l |-> items]
EmptyDict == [t |-> "obj"]

\* bool(v): None, "", 0, [] and {} are falsy
Truthy(v) ==
  CASE v.t = "null" -> FALSE
    [] v.t = "absent" -> FALSE
    [] v.t = "str" -> v.s # <<>>
    [] v.t = "num" -> v.n # 0
    [] v.t = "list" -> v.l # <<>>
    [] OTHER -> TRUE

\* key in d
Has(d, k) == k \in DOMAIN d /\ d[k].t # "absent"

\* d.get(k, default)
Get(d, k, default) == IF Has(d, k) THEN d[k] ELSE default

\* str(v) as an f-string field renders it
PyStr(v) ==
  CASE v.t = "null" -> <<"None">>
    [] v.t = "num" -> <<ToString(v.n)>>
    [] v.t = "str" -> v.s
    [] OTHER -> <<"<object>">>

\* a function's outcome: a returned value or a raised exception
Ok(v) == [ok |-> TRUE, val |-> v]
Raise(cls, msg) == [ok |-> FALSE, exc |-> [cls |-> cls, msg |-> msg]]

RECURSIVE Join(_, _)
\* sep.join(parts), parts a sequence of token sequences
Join(parts, sep) ==
  IF parts = <<>> THEN <<>>
  ELSE IF Len(parts) = 1 THEN parts[1]
  ELSE parts[1] \o <<sep>> \o Join(Tail(parts), sep)

Range(s) == {s[i] : i \in DOMAIN s}

----------------------------------------------------------------------------
(* Configuration *)

\* os.getenv(name)
getenv(e, name) == e[name]

\* os.getenv(name, default)
getenv_default(e, name, default) == IF e[name] = None THEN default ELSE e[name]

\* variant: one coordinate is taken for a resolvable location
WeatherConfig_from_env_anycoord(e) ==
  LET api_key == getenv(e, "OPENWEATHERMAP_API_KEY")
      city == getenv(e, "WEATHER_CITY")
      lat == getenv(e, "WEATHER_LAT")
      lon == getenv(e, "WEATHER_LON")
  IN IF ~Truthy(api_key)
       THEN Raise("ConfigurationError", <<"OPENWEATHERMAP_API_KEY is required">>)
     ELSE IF ~Truthy(city) /\ ~(Truthy(lat) \/ Truthy(lon))
       THEN Raise("ConfigurationError",
                  <<"Provide WEATHER_CITY or both WEATHER_LAT and WEATHER_LON">>)
     ELSE Ok([api_key |-> api_key, city |-> city, latitude |-> lat,
              longitude |-> lon,
              units |-> getenv_default(e, "WEATHER_UNITS", Lit("metric")),
              custom_location |-> getenv(e, "WEATHER_CUSTOM_LOCATION")])

WeatherConfig_from_env(e) ==
  LET api_key == getenv(e, "OPENWEATHERMAP_API_KEY")
      city == getenv(e, "WEATHER_CITY")
      lat == getenv(e, "WEATHER_LAT")
      lon == getenv(e, "WEATHER_LON")
  IN IF ~Truthy(api_key)
       THEN Raise("ConfigurationError", <<"OPENWEATHERMAP_API_KEY is required">>)
     ELSE IF ~Truthy(city) /\ ~(Truthy(lat) /\ Truthy(lon))
       THEN Raise("ConfigurationError",
                  <<"Provide WEATHER_CITY or both WEATHER_LAT and WEATHER_LON">>)
     ELSE Ok([api_key |-> api_key, city |-> city, latitude |-> lat,
              longitude |-> lon,
              units |-> getenv_default(e, "WEATHER_UNITS", Lit("metric")),
              custom_location |-> getenv(e, "WEATHER_CUSTOM_LOCATION")])

OpenAIConfig_from_env(e) ==
  LET api_key == getenv(e, "OPENAI_API_KEY")
  IN IF ~Truthy(api_key)
       THEN Raise("ConfigurationError", <<"OPENAI_API_KEY is required">>)
     ELSE Ok([api_key |-> api_key,
              model |-> getenv_default(e, "OPENAI_MODEL", Lit("gpt-5"))])

TwilioNames == <<"TWILIO_ACCOUNT_SID", "TWILIO_AUTH_TOKEN",
                 "TWILIO_FROM_NUMBER", "TWILIO_TO_NUMBER">>

\* variant: only the first missing setting is collected
TwilioMissing_first(e) ==
  LET all == SelectSeq(TwilioNames, LAMBDA name : ~Truthy(getenv(e, name)))
  IN IF all = <<>> THEN <<>> ELSE <<Head(all)>>

\* [name for name, value in (...) if not value]
TwilioMissing(e) == SelectSeq(TwilioNames, LAMBDA name : ~Truthy(getenv(e, name)))

TwilioConfig_from_env(e) ==
  LET missing == TwilioMissing(e)
  IN IF missing # <<>>
       THEN Raise("ConfigurationError",
                  <<"Missing required Twilio configuration: ">>
                    \o Join([i \in DOMAIN missing |-> <<missing[i]>>], ", "))
     ELSE Ok([account_sid |-> getenv(e, "TWILIO_ACCOUNT_SID"),
              auth_token |-> getenv(e, "TWILIO_AUTH_TOKEN"),
              from_number |-> getenv(e, "TWILIO_FROM_NUMBER"),
              to_number |-> getenv(e, "TWILIO_TO_NUMBER")])

----------------------------------------------------------------------------
(* Weather fetch *)

\* requests.get(..., timeout=10)
RequestTimeout == 10

\* variant: the coordinates are passed whether or not a place name is
fetch_params_both(config) ==
  [t |-> "obj",
   appid |-> config.api_key,
   units |-> config.units,
   q |-> IF Truthy(config.city) THEN config.city ELSE Absent,
   lat |-> config.latitude,
   lon |-> config.longitude]

\* the query parameters fetch_weather builds
fetch_params(config) ==
  [t |-> "obj",
   appid |-> config.api_key,
   units |-> config.units,
   q |-> IF Truthy(config.city) THEN config.city ELSE Absent,
   lat |-> IF Truthy(config.city) THEN Absent ELSE config.latitude,
   lon |-> IF Truthy(config.city) THEN Absent ELSE config.longitude]

\* variant: only server errors raise
raise_for_status_5xx(status) == 500 <= status /\ status < 600

\* response.raise_for_status(): 4xx and 5xx raise HTTPError
raise_for_status(status) == 400 <= status /\ status < 600

\* outcome is what the network and the provider do with the request
fetch_weather(config, outcome) ==
  IF outcome.kind = "transport"
    THEN Raise(outcome.cls, <<"request to weather provider failed">>)
  ELSE IF raise_for_status(outcome.status)
    THEN Raise("HTTPError", <<ToString(outcome.status), " Error for url">>)
  ELSE IF outcome.body.t = "invalid"
    THEN Raise("JSONDecodeError", <<"Expecting value">>)
  ELSE Ok(outcome.body)

----------------------------------------------------------------------------
(* Prompt *)

InstructionLine == <<"Write a concise, friendly weather update for an SMS message.">>
ClosingLine ==
  <<"Keep the tone warm and clear, and include a simple suggestion if helpful.">>

\* the numeric lines appended for the fields that are not None, in source order
numeric_parts(main, wind, units) ==
  LET temperature == Get(main, "temp", None)
      feels_like == Get(main, "feels_like", None)
      humidity == Get(main, "humidity", None)
      pressure == Get(main, "pressure", None)
      wind_speed == Get(wind, "speed", None)
  IN   (IF temperature # None
          THEN << <<"Temperature: ">> \o PyStr(temperature) \o <<"° (">>
                    \o PyStr(units) \o <<").">> >>
          ELSE <<>>)
    \o (IF feels_like # None
          THEN << <<"Feels like: ">> \o PyStr(feels_like) \o <<"° (">>
                    \o PyStr(units) \o <<").">> >>
          ELSE <<>>)
    \o (IF humidity # None
          THEN << <<"Humidity: ">> \o PyStr(humidity) \o <<"%.">> >>
          ELSE <<>>)
    \o (IF pressure # None
          THEN << <<"Pressure: ">> \o PyStr(pressure) \o <<" hPa.">> >>
          ELSE <<>>)
    \o (IF wind_speed # None
          THEN << <<"Wind speed: ">> \o PyStr(wind_speed) \o <<" m/s.">> >>
          ELSE <<>>)

build_weather_prompt(data, units, custom_location) ==
  IF data.t # "obj"
    THEN Raise("AttributeError", <<"object has no attribute 'get'">>)
  ELSE
  LET name == Get(data, "name", None)
      location == IF Truthy(custom_location) THEN custom_location
                  ELSE IF Truthy(name) THEN name
                  ELSE Lit("the configured location")
      weather_list == Get(data, "weather", List(<<EmptyDict>>))
  IN IF weather_list.t # "list"
       THEN Raise("TypeError", <<"object is not subscriptable">>)
     ELSE IF weather_list.l = <<>>
       THEN Raise("IndexError", <<"list index out of range">>)
     ELSE
     LET weather == weather_list.l[1]
         main == Get(data, "main", EmptyDict)
         wind == Get(data, "wind", EmptyDict)
     IN IF weather.t # "obj" \/ main.t # "obj" \/ wind.t # "obj"
          THEN Raise("AttributeError", <<"object has no attribute 'get'">>)
        ELSE
        LET description == Get(weather, "description", Lit("no description available"))
            parts == << InstructionLine,
                        <<"Location: ">> \o PyStr(location) \o <<".">>,
                        <<"Conditions: ">> \o PyStr(description) \o <<".">> >>
                     \o numeric_parts(main, wind, units)
                     \o << ClosingLine >>
        IN Ok(Str(Join(parts, "\n")))

----------------------------------------------------------------------------
(* Summary *)

\* max_output_tokens=200
MaxOutputTokens == 200

\* the fixed system message (abridged)
SystemPersona == Lit("you're texting your bro about the weather every morning. ...")

Whitespace == {" ", "\n", "\t"}

RECURSIVE lstrip(_)
lstrip(s) == IF s # <<>> /\ Head(s) \in Whitespace THEN lstrip(Tail(s)) ELSE s

RECURSIVE rstrip(_)
rstrip(s) ==
  IF s # <<>> /\ s[Len(s)] \in Whitespace THEN rstrip(SubSeq(s, 1, Len(s) - 1)) ELSE s

\* variant: only leading whitespace is removed
strip_left(v) == Str(lstrip(v.s))

\* str.strip() on a text whose fragments are single characters
strip(v) == Str(rstrip(lstrip(v.s)))

openai_request(openai_cfg_, prompt_) ==
  [t |-> "obj",
   model |-> openai_cfg_.model,
   input |-> << [role |-> "system", content |-> SystemPersona],
                [role |-> "user", content |-> prompt_] >>,
   max_output_tokens |-> MaxOutputTokens]

\* outcome is what the provider does with the request
summarize_weather(openai_cfg_, prompt_, outcome) ==
  IF outcome.kind = "error"
    THEN Raise(outcome.cls, <<"text-generation request failed">>)
  ELSE
  LET content == strip(outcome.output_text)
  IN IF ~Truthy(content)
       THEN Raise("RuntimeError", <<"OpenAI response was empty">>)
     ELSE Ok(content)

----------------------------------------------------------------------------
(* SMS *)

twilio_request(twilio_cfg_, message) ==
  [t |-> "obj",
   body |-> message,
   from_ |-> twilio_cfg_.from_number,
   to |-> twilio_cfg_.to_number]

\* outcome is what the provider does with the request
send_sms(twilio_cfg_, message, outcome) ==
  IF outcome.kind = "error"
    THEN Raise(outcome.cls, <<"SMS request failed">>)
  ELSE Ok(None)

----------------------------------------------------------------------------
(* main *)

ConfirmationLine == Lit("Weather summary sent successfully:")
ConfigErrorPrefix == "Configuration error: "
FetchErrorPrefix == "Failed to fetch weather data: "
UnexpectedErrorPrefix == "Unexpected error: "

\* variant: the first clause catches RuntimeError, the base of ConfigurationError
except_line_runtime(exc) ==
  IF exc.cls \in {"ConfigurationError", "RuntimeError"}
    THEN Str(<<ConfigErrorPrefix>> \o exc.msg)
  ELSE IF exc.cls = "HTTPError" THEN Str(<<FetchErrorPrefix>> \o exc.msg)
  ELSE Str(<<UnexpectedErrorPrefix>> \o exc.msg)

\* the line the except clause that catches exc prints to sys.stderr
except_line(exc) ==
  IF exc.cls = "ConfigurationError" THEN Str(<<ConfigErrorPrefix>> \o exc.msg)
  ELSE IF exc.cls = "HTTPError" THEN Str(<<FetchErrorPrefix>> \o exc.msg)
  ELSE Str(<<UnexpectedErrorPrefix>> \o exc.msg)

\* an exception leaves the try block: one line on stderr, return 1
Except(exc) ==
  /\ raised' = exc
  /\ stderr' = Append(stderr, except_line(exc))
  /\ exit_code' = Num(1)
  /\ pc' = "Failed"

\* variant: the SMS settings are read without being validated
load_configs_unchecked(e) ==
  LET w == WeatherConfig_from_env(e)
      o == OpenAIConfig_from_env(e)
  IN IF ~w.ok THEN [ok |-> FALSE, exc |-> w.exc, weather |-> None, openai |-> None,
                     twilio |-> None]
     ELSE IF ~o.ok THEN [ok |-> FALSE, exc |-> o.exc, weather |-> w.val,
                          openai |-> None, twilio |-> None]
     ELSE [ok |-> TRUE, exc |-> None, weather |-> w.val, openai |-> o.val,
           twilio |-> [account_sid |-> getenv(e, "TWILIO_ACCOUNT_SID"),
                       auth_token |-> getenv(e, "TWILIO_AUTH_TOKEN"),
                       from_number |-> getenv(e, "TWILIO_FROM_NUMBER"),
                       to_number |-> getenv(e, "TWILIO_TO_NUMBER")]]

\* the configuration main holds after the three from_env calls, in order
load_configs(e) ==
  LET w == WeatherConfig_from_env(e)
      o == OpenAIConfig_from_env(e)
      tw == TwilioConfig_from_env(e)
  IN IF ~w.ok THEN [ok |-> FALSE, exc |-> w.exc, weather |-> None, openai |-> None,
                     twilio |-> None]
     ELSE IF ~o.ok THEN [ok |-> FALSE, exc |-> o.exc, weather |-> w.val,
                          openai |-> None, twilio |-> None]
     ELSE IF ~tw.ok THEN [ok |-> FALSE, exc |-> tw.exc, weather |-> w.val,
                           openai |-> o.val, twilio |-> None]
     ELSE [ok |-> TRUE, exc |-> None, weather |-> w.val, openai |-> o.val,
           twilio |-> tw.val]

LoadConfig ==
  /\ pc = "ConfigLoading"
  /\ LET c == load_configs(env)
     IN /\ weather_cfg' = c.weather
        /\ openai_cfg' = c.openai
        /\ twilio_cfg' = c.twilio
        /\ IF c.ok
             THEN pc' = "Fetching" /\ UNCHANGED <<raised, stderr, exit_code>>
             ELSE Except(c.exc)
  /\ UNCHANGED <<env, response, weather_data, prompt, gen_response, summary,
                 sms_result, calls, stdout>>

Fetch(outcomes) ==
  /\ pc = "Fetching"
  /\ \E o \in outcomes :
       LET r == fetch_weather(weather_cfg, o)
       IN /\ response' = o
          /\ calls' = Append(calls, [svc |-> "weather",
                                     req |-> [params |-> fetch_params(weather_cfg),
                                              timeout |-> RequestTimeout]])
          /\ IF r.ok
               THEN /\ weather_data' = r.val
                    /\ pc' = "Prompting"
                    /\ UNCHANGED <<raised, stderr, exit_code>>
               ELSE Except(r.exc) /\ UNCHANGED weather_data
  /\ UNCHANGED <<env, weather_cfg, openai_cfg, twilio_cfg, prompt, gen_response,
                 summary, sms_result, stdout>>

BuildPrompt ==
  /\ pc = "Prompting"
  /\ LET r == build_weather_prompt(weather_data, weather_cfg.units,
                                   weather_cfg.custom_location)
     IN IF r.ok
          THEN /\ prompt' = r.val
               /\ pc' = "Summarizing"
               /\ UNCHANGED <<raised, stderr, exit_code>>
          ELSE Except(r.exc) /\ UNCHANGED prompt
  /\ UNCHANGED <<env, weather_cfg, openai_cfg, twilio_cfg, response, weather_data,
                 gen_response, summary, sms_result, calls, stdout>>

Summarize(outcomes) ==
  /\ pc = "Summarizing"
  /\ \E o \in outcomes :
       LET r == summarize_weather(openai_cfg, prompt, o)
       IN /\ gen_response' = o
          /\ calls' = Append(calls, [svc |-> "openai",
                                     req |-> openai_request(openai_cfg, prompt)])
          /\ IF r.ok
               THEN /\ summary' = r.val
                    /\ pc' = "Delivering"
                    /\ UNCHANGED <<raised, stderr, exit_code>>
               ELSE Except(r.exc) /\ UNCHANGED summary
  /\ UNCHANGED <<env, weather_cfg, openai_cfg, twilio_cfg, response, weather_data,
                 prompt, sms_result, stdout>>

\* variant: the confirmation line is left out
success_output_bare(summary_) == <<summary_>>

\* what main prints once send_sms has returned
success_output(summary_) == <<ConfirmationLine, summary_>>

Deliver(outcomes) ==
  /\ pc = "Delivering"
  /\ \E o \in outcomes :
       LET r == send_sms(twilio_cfg, summary, o)
       IN /\ sms_result' = o
          /\ calls' = Append(calls, [svc |-> "twilio",
                                     req |-> twilio_request(twilio_cfg, summary)])
          /\ IF r.ok
               THEN /\ stdout' = stdout \o success_output(summary)
                    /\ exit_code' = Num(0)
                    /\ pc' = "Done"
                    /\ UNCHANGED <<raised, stderr>>
               ELSE Except(r.exc) /\ UNCHANGED stdout
  /\ UNCHANGED <<env, weather_cfg, openai_cfg, twilio_cfg, response, weather_data,
                 prompt, gen_response, summary>>

----------------------------------------------------------------------------
(* Inputs: environments and provider behaviours *)

EnvOf(key, city, lat, lon, units, custom, okey, model, sid, tok, from, to) ==
  [OPENWEATHERMAP_API_KEY |-> key, WEATHER_CITY |-> city, WEATHER_LAT |-> lat,
   WEATHER_LON |-> lon, WEATHER_UNITS |-> units, WEATHER_CUSTOM_LOCATION |-> custom,
   OPENAI_API_KEY |-> okey, OPENAI_MODEL |-> model, TWILIO_ACCOUNT_SID |-> sid,
   TWILIO_AUTH_TOKEN |-> tok, TWILIO_FROM_NUMBER |-> from, TWILIO_TO_NUMBER |-> to]

\* an environment variable is unset or holds v
Opt(v) == {None, Lit(v)}
\* an environment variable is unset, empty or holds v
Opt3(v) == {None, Str(<<>>), Lit(v)}

\* a JSON field: absent, null or a number
NumField == {Absent, None} \cup {Num(n) : n \in 0..MaxNum}

MainObjects ==
  [t : {"obj"}, temp : NumField, feels_like : NumField, humidity : NumField,
   pressure : NumField]
WindObjects == [t : {"obj"}, speed : NumField]
NameValues == {Absent, None, Str(<<>>), Lit("Berlin")}
DescriptionValues == {Absent, None, Str(<<>>), Lit("clear sky")}
WeatherEntries == {None} \cup [t : {"obj"}, description : DescriptionValues]
WeatherLists == {Absent, None, List(<<>>)} \cup {List(<<w>>) : w \in WeatherEntries}

\* every shape of response body the model considers
AllBodies ==
  [t : {"obj"}, name : NameValues, weather : WeatherLists,
   main : {Absent, None} \cup MainObjects, wind : {Absent, None} \cup WindObjects]

FullBody ==
  [t |-> "obj", name |-> Lit("Berlin"),
   weather |-> List(<<[t |-> "obj", description |-> Lit("clear sky")]>>),
   main |-> [t |-> "obj", temp |-> Num(MaxNum), feels_like |-> Num(MaxNum),
             humidity |-> Num(0), pressure |-> Num(MaxNum)],
   wind |-> [t |-> "obj", speed |-> Num(0)]]

BareBody ==
  [t |-> "obj", name |-> Absent, weather |-> Absent, main |-> Absent, wind |-> Absent]

SampleBodies ==
  {FullBody, BareBody,
   [BareBody EXCEPT !.weather = List(<<>>)],
   [FullBody EXCEPT !.main = None],
   [FullBody EXCEPT !.weather = List(<<[t |-> "obj", description |-> None]>>)]}

Http(status, body) == [kind |-> "http", cls |-> "", status |-> status, body |-> body]
Transport(cls) == [kind |-> "transport", cls |-> cls, status |-> 0, body |-> None]

FetchFailures ==
  {Transport("ConnectionError"), Transport("Timeout"),
   Http(200, [t |-> "invalid"])}
    \cup {Http(st, [t |-> "invalid"]) : st \in {401, 404, 500}}
    \cup {Http(st, BareBody) : st \in {401, 500}}

SampleFetches == FetchFailures \cup {Http(200, b) : b \in SampleBodies}
AllFetches == {Http(401, BareBody)} \cup {Http(200, b) : b \in AllBodies}

Chars == {" ", "\n", "h", "i"}
Texts(n) == UNION {[1..k -> Chars] : k \in 0..n}

GenOk(text) == [kind |-> "ok", cls |-> "", output_text |-> Str(text)]
GenError == [kind |-> "error", cls |-> "APIError", output_text |-> None]
AllGenerations == {GenError} \cup {GenOk(x) : x \in Texts(MaxOutLen)}
SampleGenerations == {GenError, GenOk(<<>>), GenOk(<<" ">>), GenOk(<<"h", "i", "\n">>)}

SmsOutcomes == {[kind |-> "ok", cls |-> ""], [kind |-> "error", cls |-> "TwilioRestException"]}

----------------------------------------------------------------------------
(* Specifications *)

\* the state when main() is entered in environment e
Start(e) ==
  /\ env = e
  /\ pc = "ConfigLoading"
  /\ weather_cfg = None
  /\ openai_cfg = None
  /\ twilio_cfg = None
  /\ response = None
  /\ weather_data = None
  /\ prompt = None
  /\ gen_response = None
  /\ summary = None
  /\ sms_result = None
  /\ calls = <<>>
  /\ raised = None
  /\ stdout = <<>>
  /\ stderr = <<>>
  /\ exit_code = None

\* one run of main(): every variable set or unset, every provider outcome
Init ==
  \E key \in Opt("owm-key"), city \in Opt("Berlin,de"), lat \in Opt("52.5"),
     lon \in Opt("13.4"), units \in Opt("imperial"), custom \in Opt("Home"),
     okey \in Opt("sk-key"), sid \in Opt("AC1"), tok \in Opt("secret"),
     from \in Opt("+1555"), to \in Opt("+1666") :
    Start(EnvOf(key, city, lat, lon, units, custom, okey, None, sid, tok, from, to))

Next ==
  \/ LoadConfig
  \/ Fetch(SampleFetches)
  \/ BuildPrompt
  \/ Summarize(AllGenerations)
  \/ Deliver(SmsOutcomes)

Spec == Init /\ [][Next]_vars

\* the weather group of the environment, exhaustively; the rest valid
InitWeatherEnv ==
  \E key \in Opt3("owm-key"), city \in Opt3("Berlin,de"), lat \in Opt3("52.5"),
     lon \in Opt3("13.4"), units \in Opt3("imperial") :
    Start(EnvOf(key, city, lat, lon, units, None, Lit("sk-key"), Lit("gpt-x"),
                Lit("AC1"), Lit("secret"), Lit("+1555"), Lit("+1666")))

NextEnv ==
  \/ LoadConfig
  \/ Fetch(SampleFetches)
  \/ BuildPrompt
  \/ Summarize(SampleGenerations)
  \/ Deliver(SmsOutcomes)

SpecWeatherEnv == InitWeatherEnv /\ [][NextEnv]_vars

\* the SMS group of the environment, exhaustively; the rest valid
InitTwilioEnv ==
  \E sid \in Opt3("AC1"), tok \in Opt3("secret"), from \in Opt3("+1555"),
     to \in Opt3("+1666"), okey \in Opt3("sk-key") :
    Start(EnvOf(Lit("owm-key"), Lit("Berlin,de"), None, None, None, None, okey,
                None, sid, tok, from, to))

SpecTwilioEnv == InitTwilioEnv /\ [][NextEnv]_vars

\* every response body, under the display overrides and both unit settings
InitPrompt ==
  \E uc \in {<<None, None>>, <<None, Str(<<>>)>>, <<None, Lit("Home")>>,
             <<Lit("imperial"), None>>} :
    Start(EnvOf(Lit("owm-key"), Lit("Berlin,de"), None, None, uc[1], uc[2],
                Lit("sk-key"), None, Lit("AC1"), Lit("secret"), Lit("+1555"),
                Lit("+1666")))

NextPrompt ==
  \/ LoadConfig
  \/ Fetch(AllFetches)
  \/ BuildPrompt

SpecPrompt == InitPrompt /\ [][NextPrompt]_vars

----------------------------------------------------------------------------
(* Vocabulary of the properties *)

\* the requests made to one provider, in order
CallsTo(svc) == SelectSeq(calls, LAMBDA c : c.svc = svc)

\* a query parameter that goes on the wire (requests drops None values)
Sent(params, k) == Has(params, k) /\ params[k] # None

\* an environment variable that is set and not empty
Given(name) == env[name] # None /\ env[name] # Str(<<>>)

PlaceGiven == Given("WEATHER_CITY")
CoordsGiven == Given("WEATHER_LAT") /\ Given("WEATHER_LON")
WeatherEnvBad == ~Given("OPENWEATHERMAP_API_KEY") \/ (~PlaceGiven /\ ~CoordsGiven)
OpenAIEnvBad == ~Given("OPENAI_API_KEY")
TwilioEnvMissing == {n \in Range(TwilioNames) : ~Given(n)}

\* first fragment of the only line on stderr
Prefix == stderr[1].s[1]

RECURSIVE Split(_)
\* the lines of a text whose line breaks are "\n" fragments
Split(s) ==
  IF "\n" \notin Range(s) THEN <<s>>
  ELSE LET i == CHOOSE j \in DOMAIN s :
                  s[j] = "\n" /\ \A k \in 1..(j - 1) : s[k] # "\n"
       IN <<SubSeq(s, 1, i - 1)>> \o Split(SubSeq(s, i + 1, Len(s)))

\* the text between the first and the last non-whitespace character
Trimmed(s) ==
  LET solid == {i \in DOMAIN s : s[i] \notin Whitespace}
  IN IF solid = {} THEN <<>>
     ELSE SubSeq(s, CHOOSE i \in solid : \A j \in solid : i <= j,
                    CHOOSE i \in solid : \A j \in solid : j <= i)

\* the prompt stage has run on a fetched response body
PromptStageRan == weather_data # None /\ pc # "Prompting"

----------------------------------------------------------------------------
(* Properties of the configuration loaders and of the weather request *)

\* C1: every weather request sends exactly one location form, the place name q
\* alone or lat and lon together, never both forms and never neither; when a
\* place name and both coordinates are configured, the place name is sent.
C1_OneLocationForm ==
  \A i \in DOMAIN calls :
    calls[i].svc = "weather" =>
      LET params == calls[i].req.params
          place == Sent(params, "q")
          anyCoord == Sent(params, "lat") \/ Sent(params, "lon")
          bothCoords == Sent(params, "lat") /\ Sent(params, "lon")
      IN /\ place \/ bothCoords
         /\ ~(place /\ anyCoord)
         /\ anyCoord => bothCoords
         /\ place => params.q = env["WEATHER_CITY"]
         /\ bothCoords => /\ params.lat = env["WEATHER_LAT"]
                          /\ params.lon = env["WEATHER_LON"]
         /\ (PlaceGiven /\ CoordsGiven) => place

\* C1 witness: a request was made with place name and both coordinates configured
C1_Witness ==
  /\ PlaceGiven /\ CoordsGiven
  /\ Len(CallsTo("weather")) = 1
  /\ Sent(calls[1].req.params, "q")

\* C7 as stated: from_env raises when the key is missing or no location form is
\* resolvable, and every config it returns has exactly one resolvable location
\* form (the place name, or both coordinates, not both forms).
C7_ExactlyOneFormResolves ==
  pc # "ConfigLoading" =>
    /\ WeatherEnvBad => (weather_cfg = None /\ raised.cls = "ConfigurationError")
    /\ weather_cfg # None =>
         /\ Truthy(weather_cfg.api_key)
         /\ Truthy(weather_cfg.city)
              # (Truthy(weather_cfg.latitude) /\ Truthy(weather_cfg.longitude))

\* C7 amended: from_env raises ConfigurationError exactly when the key is missing
\* or no location form is resolvable; every config it returns has at least one
\* resolvable form (possibly both), and a config without a place name is returned
\* only when latitude and longitude are both given.
C7_SomeFormResolves ==
  pc # "ConfigLoading" =>
    /\ WeatherEnvBad <=> weather_cfg = None
    /\ WeatherEnvBad =>
         /\ raised.cls = "ConfigurationError"
         /\ pc = "Failed"
         /\ calls = <<>>
    /\ weather_cfg # None =>
         /\ Truthy(weather_cfg.api_key)
         /\ \/ Truthy(weather_cfg.city)
            \/ Truthy(weather_cfg.latitude) /\ Truthy(weather_cfg.longitude)
         /\ ~Truthy(weather_cfg.city) =>
              /\ Truthy(weather_cfg.latitude)
              /\ Truthy(weather_cfg.longitude)
         /\ weather_cfg.city = env["WEATHER_CITY"]
         /\ weather_cfg.latitude = env["WEATHER_LAT"]
         /\ weather_cfg.longitude = env["WEATHER_LON"]

\* C7 witness: a config returned on its coordinates alone, without a place name
C7_Witness ==
  /\ weather_cfg # None
  /\ ~Truthy(weather_cfg.city)
  /\ Truthy(weather_cfg.latitude)
  /\ Truthy(weather_cfg.longitude)

\* C2: TwilioConfig.from_env succeeds iff all four settings are non-empty;
\* otherwise it raises one ConfigurationError whose message names exactly the
\* missing or empty settings, all of them and no others.
C2_TwilioAggregated ==
  LET r == TwilioConfig_from_env(env)
  IN /\ r.ok <=> TwilioEnvMissing = {}
     /\ ~r.ok =>
          /\ r.exc.cls = "ConfigurationError"
          /\ {n \in Range(TwilioNames) : n \in Range(r.exc.msg)} = TwilioEnvMissing
          /\ \A n \in TwilioEnvMissing :
               Cardinality({i \in DOMAIN r.exc.msg : r.exc.msg[i] = n}) = 1
     /\ (pc # "ConfigLoading" /\ openai_cfg # None) =>
          /\ twilio_cfg # None <=> TwilioEnvMissing = {}
          /\ TwilioEnvMissing # {} =>
               /\ raised = r.exc
               /\ Len(stderr) = 1
               /\ {n \in Range(TwilioNames) : n \in Range(stderr[1].s)}
                    = TwilioEnvMissing

\* C2 witness: two settings are missing (one unset, one empty) and both are named
C2_Witness ==
  /\ env["TWILIO_ACCOUNT_SID"] = None
  /\ env["TWILIO_TO_NUMBER"] = Str(<<>>)
  /\ Given("TWILIO_AUTH_TOKEN") /\ Given("TWILIO_FROM_NUMBER")
  /\ raised # None
  /\ "TWILIO_ACCOUNT_SID" \in Range(raised.msg)
  /\ "TWILIO_TO_NUMBER" \in Range(raised.msg)

----------------------------------------------------------------------------
(* Properties of the prompt *)

NumericFields ==
  << [c |-> "main", k |-> "temp", label |-> "Temperature: "],
     [c |-> "main", k |-> "feels_like", label |-> "Feels like: "],
     [c |-> "main", k |-> "humidity", label |-> "Humidity: "],
     [c |-> "main", k |-> "pressure", label |-> "Pressure: "],
     [c |-> "wind", k |-> "speed", label |-> "Wind speed: "] >>

\* the value the observation holds for a numeric field, None when there is none
FieldValue(data, f) ==
  IF Has(data, f.c) /\ data[f.c].t = "obj" /\ Has(data[f.c], f.k)
    THEN data[f.c][f.k]
    ELSE None

\* the numeric fields that are present and not null, in the fixed order
PresentFields(data) == SelectSeq(NumericFields, LAMBDA f : FieldValue(data, f) # None)

\* the lines of text are the four fixed lines around one line per present field
HasExactlyTheNumericLines(text, data) ==
  LET lines == Split(text)
      present == PresentFields(data)
  IN /\ Len(lines) = Len(present) + 4
     /\ lines[1] = InstructionLine
     /\ lines[2][1] = "Location: "
     /\ lines[3][1] = "Conditions: "
     /\ lines[Len(lines)] = ClosingLine
     /\ \A i \in DOMAIN present :
          /\ lines[3 + i][1] = present[i].label
          /\ lines[3 + i][2] = ToString(FieldValue(data, present[i]).n)

\* C3: for every observation the prompt holds the line of a numeric field iff
\* the field is present and not null (0 is rendered), in the fixed order,
\* between the instruction, location and conditions lines and the closing line.
C3_NumericLines ==
  PromptStageRan =>
    /\ prompt # None
    /\ HasExactlyTheNumericLines(prompt.s, weather_data)

\* what holds of the code: every prompt that is built has exactly those lines
NumericLinesWhenBuilt ==
  prompt # None => HasExactlyTheNumericLines(prompt.s, weather_data)

\* a text value that is there: present, not null and not empty
Filled(d, k) == Has(d, k) /\ d[k].t = "str" /\ d[k].s # <<>>

ExpectedLocation ==
  IF Given("WEATHER_CUSTOM_LOCATION") THEN env["WEATHER_CUSTOM_LOCATION"].s
  ELSE IF Filled(weather_data, "name") THEN weather_data.name.s
  ELSE <<"the configured location">>

ExpectedDescription ==
  LET w == weather_data.weather
  IN IF /\ w.t = "list"
        /\ w.l # <<>>
        /\ w.l[1].t = "obj"
        /\ Filled(w.l[1], "description")
       THEN w.l[1].description.s
       ELSE <<"no description available">>

\* C8: whatever optional parts of a successful response are absent, empty or
\* null, the prompt is built without raising; its location line is the override,
\* else the observed name, else the fallback literal, and its conditions line is
\* the observed description when there is one, else the fallback literal.
C8_GracefulPrompt ==
  PromptStageRan =>
    /\ prompt # None
    /\ Split(prompt.s)[2] = <<"Location: ">> \o ExpectedLocation \o <<".">>
    /\ Split(prompt.s)[3] = <<"Conditions: ">> \o ExpectedDescription \o <<".">>

\* what holds of the code: every prompt that is built has that location line
LocationLineWhenBuilt ==
  prompt # None =>
    Split(prompt.s)[2] = <<"Location: ">> \o ExpectedLocation \o <<".">>

----------------------------------------------------------------------------
(* Properties of a run *)

Failed == pc = "Failed"
NonSuccess(status) == status < 200 \/ status >= 300
FetchRejected == response # None /\ response.kind = "http" /\ NonSuccess(response.status)

AllSucceeded ==
  /\ weather_cfg # None /\ openai_cfg # None /\ twilio_cfg # None
  /\ weather_data # None
  /\ summary # None
  /\ sms_result # None /\ sms_result.kind = "ok"

EmptyResponseRaised ==
  raised # None /\ raised.cls = "RuntimeError"
    /\ raised.msg = <<"OpenAI response was empty">>

\* C6: the summarizer raises the empty-response error iff the provider's
\* trimmed output is empty, and otherwise returns the trimmed text; every SMS
\* request carries a non-empty message without surrounding whitespace.
C6_TrimmedNonEmpty ==
  /\ EmptyResponseRaised <=>
       /\ gen_response # None
       /\ gen_response.kind = "ok"
       /\ Trimmed(gen_response.output_text.s) = <<>>
  /\ (gen_response # None /\ gen_response.kind = "ok"
        /\ Trimmed(gen_response.output_text.s) # <<>>) =>
       summary = Str(Trimmed(gen_response.output_text.s))
  /\ \A i \in DOMAIN calls :
       calls[i].svc = "twilio" =>
         LET body == calls[i].req.body
         IN /\ body # None
            /\ body.s # <<>>
            /\ body.s[1] \notin Whitespace
            /\ body.s[Len(body.s)] \notin Whitespace
            /\ body = summary

\* C6 witness: an SMS request was made after output with whitespace on both sides
C6_Witness ==
  /\ gen_response # None
  /\ gen_response.output_text = Str(<<"\n", "h", " ">>)
  /\ Len(CallsTo("twilio")) = 1

Stages == <<"ConfigLoading", "Fetching", "Prompting", "Summarizing", "Delivering", "Done">>
StageNo(p) == CHOOSE i \in DOMAIN Stages : Stages[i] = p

\* what holds of the requests made so far
CallsInOrder ==
  /\ \A svc \in {"weather", "openai", "twilio"} : Len(CallsTo(svc)) <= 1
  /\ \A i \in DOMAIN calls : calls[i].svc = <<"weather", "openai", "twilio">>[i]
  /\ calls # <<>> => (weather_cfg # None /\ openai_cfg # None /\ twilio_cfg # None)
  /\ CallsTo("openai") # <<>> => (weather_data # None /\ prompt # None)
  /\ CallsTo("twilio") # <<>> => (CallsTo("openai") # <<>> /\ summary # None)
  /\ (WeatherEnvBad \/ OpenAIEnvBad \/ TwilioEnvMissing # {}) => calls = <<>>

\* C9: a run moves one stage forward at a time or from a non-terminal stage to
\* Failed; Done and Failed are absorbing; each external request is made at most
\* once, only after every earlier stage succeeded, and none is made unless all
\* three configuration groups validated.
C9_ForwardOnly ==
  [][/\ pc \in {"Done", "Failed"} => UNCHANGED vars
     /\ pc' # pc =>
          \/ pc' = "Failed"
          \/ StageNo(pc') = StageNo(pc) + 1
     /\ Len(calls') <= Len(calls) + 1
     /\ CallsInOrder']_vars

\* C9 witness: only an SMS setting is missing, and the run failed with no request
C9_Witness ==
  /\ Failed
  /\ weather_cfg # None /\ openai_cfg # None /\ twilio_cfg = None
  /\ calls = <<>>

====
